---- MODULE Spec2Model ----
(***************************************************************************)
(* Content proxy and extraction engine of shadcn-feed-reader (src-tauri).  *)
(*                                                                         *)
(* Strings of the program are TLA+ strings, handled character by character *)
(* with Len, SubSeq and \o.  A URL is parsed into scheme, host, port, path *)
(* and query as the url crate does for http(s) URLs; a response body is a  *)
(* sequence of tokens whose concatenation is the byte stream.              *)
(*                                                                         *)
(* Six specifications share the definitions:                               *)
(*   SpecStart    concurrent start_proxy calls (tokio worker threads)      *)
(*   Spec         the session: one task issuing operations one at a time,  *)
(*                interleaved with set_proxy_url / set_proxy_auth /        *)
(*                clear_proxy_auth, which run on other threads             *)
(*   SpecLogin    the session with the operations of shared.rs, which     *)
(*                send their requests through the shared cookie jar       *)
(*   SpecAuth     the credential table: the commands on two domains next  *)
(*                to start_proxy, fetch_raw_html and the form login       *)
(*   SpecArticle  fetch_article's classification of a response            *)
(*   SpecRewrite  the attribute rules of the two HTML rewriters, and the   *)
(*                request a rewritten link of a page leads to              *)
(***************************************************************************)
EXTENDS Integers, Sequences, FiniteSets, TLC

\* ------------------------------------------------------------------ bounds

\* Number of tasks that may run commands concurrently.
MaxTasks == 2
\* Number of free ports portpicker may hand out.
MaxPorts == 2
\* Extra characters of text beyond the 100 the extractor's claims speak of.
MaxExtra == 1

\* ------------------------------------------------------- program constants

\* port_guard.unwrap_or(3000)
DefaultPort == 3000
\* trimmed.len() < 150
MinimalLen == 150
\* html.chars().take(100)
BinaryWindow == 100
\* html.len() < 200
SmallLen == 200
\* extracted_content.len() < 100
ExtractedMinLen == 100
\* StatusCode::UNAUTHORIZED
Unauthorized == 401

FALLBACK_SIGNAL == "READABILITY_FAILED_FALLBACK"

\* ----------------------------------------------------------------- options

None == [some |-> FALSE]
Some(v) == [some |-> TRUE, v |-> v]

\* F(v) and F(a, b), with the arguments evaluated once before F is applied.
Bind(v, F(_)) == CHOOSE r \in {F(x) : x \in {v}} : TRUE
Bind2(a, b, F(_, _)) == CHOOSE r \in {F(x, y) : x \in {a}, y \in {b}} : TRUE

\* ----------------------------------------------------------------- strings

Char(s, i) == SubSeq(s, i, i)

StartsWith(s, p) == Len(s) >= Len(p) /\ SubSeq(s, 1, Len(p)) = p

EndsWith(s, p) == Len(s) >= Len(p) /\ SubSeq(s, Len(s) - Len(p) + 1, Len(s)) = p

Contains(s, p) == \E i \in 1..(Len(s) - Len(p) + 1) : SubSeq(s, i, i + Len(p) - 1) = p

\* str::find: the index of the first occurrence of p in s, 0 when there is none.
Find(s, p) ==
  IF Contains(s, p)
  THEN CHOOSE i \in 1..(Len(s) - Len(p) + 1) :
         /\ SubSeq(s, i, i + Len(p) - 1) = p
         /\ \A j \in 1..(i - 1) : SubSeq(s, j, j + Len(p) - 1) # p
  ELSE 0

\* str::rfind
FindLast(s, p) ==
  IF Contains(s, p)
  THEN CHOOSE i \in 1..(Len(s) - Len(p) + 1) :
         /\ SubSeq(s, i, i + Len(p) - 1) = p
         /\ \A j \in (i + 1)..(Len(s) - Len(p) + 1) : SubSeq(s, j, j + Len(p) - 1) # p
  ELSE 0

\* The first index of s holding one of the characters cs, 0 when there is none.
FindAny(s, cs) ==
  IF \E i \in 1..Len(s) : Char(s, i) \in cs
  THEN CHOOSE i \in 1..Len(s) :
         /\ Char(s, i) \in cs
         /\ \A j \in 1..(i - 1) : Char(s, j) \notin cs
  ELSE 0

From(s, i) == SubSeq(s, i, Len(s))

\* char::is_whitespace on the characters the model uses.
WhiteSpace == {" ", "\t", "\n", "\r", "\f"}

\* str::trim_start
TrimStart(s) ==
  IF \A i \in 1..Len(s) : Char(s, i) \in WhiteSpace THEN ""
  ELSE From(s, CHOOSE i \in 1..Len(s) :
                 /\ Char(s, i) \notin WhiteSpace
                 /\ \A j \in 1..(i - 1) : Char(s, j) \in WhiteSpace)

\* str::trim_end
TrimEnd(s) ==
  IF \A i \in 1..Len(s) : Char(s, i) \in WhiteSpace THEN ""
  ELSE SubSeq(s, 1, CHOOSE i \in 1..Len(s) :
                      /\ Char(s, i) \notin WhiteSpace
                      /\ \A j \in (i + 1)..Len(s) : Char(s, j) \in WhiteSpace)

\* str::trim
Trim(s) == TrimEnd(TrimStart(s))

\* str::replace(c, "") for a single character c.
\* (The recursions on strings halve their argument: the strings are long.)
RECURSIVE RemoveChar(_, _)
RemoveChar(str, c) ==
  Bind(str, LAMBDA s :
    IF Len(s) = 0 THEN ""
    ELSE IF Len(s) = 1 THEN (IF s = c THEN "" ELSE s)
    ELSE RemoveChar(SubSeq(s, 1, Len(s) \div 2), c)
         \o RemoveChar(From(s, (Len(s) \div 2) + 1), c))

\* n times the string c.
RECURSIVE Repeat(_, _)
Repeat(c, n) ==
  IF n <= 0 THEN ""
  ELSE Bind(Repeat(c, n \div 2), LAMBDA h : h \o h \o (IF n % 2 = 1 THEN c ELSE ""))

Digits == <<"0", "1", "2", "3", "4", "5", "6", "7", "8", "9">>

\* format!("{}", n) for a u16.
RECURSIVE IntToStr(_)
IntToStr(n) ==
  IF n < 10 THEN Digits[n + 1] ELSE IntToStr(n \div 10) \o Digits[(n % 10) + 1]

\* char::is_control on the characters the model uses.
IsControl(c) == c \in {"\t", "\n", "\r", "\f"}

\* ------------------------------------------------------ percent-encoding

Unreserved ==
  { "a", "b", "c", "d", "e", "f", "g", "h", "i", "j", "k", "l", "m",
    "n", "o", "p", "q", "r", "s", "t", "u", "v", "w", "x", "y", "z",
    "A", "B", "C", "D", "E", "F", "G", "H", "I", "J", "K", "L", "M",
    "N", "O", "P", "Q", "R", "S", "T", "U", "V", "W", "X", "Y", "Z",
    "0", "1", "2", "3", "4", "5", "6", "7", "8", "9", "-", "_", ".", "~" }

\* The escape of one reserved ASCII character (upper-case hexadecimal).
Escape(c) ==
  CASE c = ":" -> "%3A"
    [] c = "/" -> "%2F"
    [] c = "?" -> "%3F"
    [] c = "#" -> "%23"
    [] c = "=" -> "%3D"
    [] c = "&" -> "%26"
    [] c = "%" -> "%25"
    [] c = " " -> "%20"
    [] c = "+" -> "%2B"
    [] c = "," -> "%2C"
    [] c = "@" -> "%40"
    [] c = "'" -> "%27"
    [] OTHER -> "%3F"

\* urlencoding::encode
RECURSIVE UrlEncode(_)
UrlEncode(str) ==
  Bind(str, LAMBDA s :
    IF Len(s) = 0 THEN ""
    ELSE IF Len(s) = 1 THEN (IF s \in Unreserved THEN s ELSE Escape(s))
    ELSE UrlEncode(SubSeq(s, 1, Len(s) \div 2)) \o UrlEncode(From(s, (Len(s) \div 2) + 1)))

Unescape(e) ==
  CASE e = "%3A" -> ":"
    [] e = "%2F" -> "/"
    [] e = "%3F" -> "?"
    [] e = "%23" -> "#"
    [] e = "%3D" -> "="
    [] e = "%26" -> "&"
    [] e = "%25" -> "%"
    [] e = "%20" -> " "
    [] e = "%2B" -> "+"
    [] e = "%2C" -> ","
    [] e = "%40" -> "@"
    [] e = "%27" -> "'"
    [] OTHER -> e

\* urlencoding::decode
RECURSIVE UrlDecode(_)
UrlDecode(str) ==
  Bind2(str, Find(str, "%"), LAMBDA s, i :
    IF i = 0 \/ i + 2 > Len(s) THEN s
    ELSE SubSeq(s, 1, i - 1) \o Unescape(SubSeq(s, i, i + 2)) \o UrlDecode(From(s, i + 3)))

\* -------------------------------------------------------------------- URLs

BadUrl ==
  [ok |-> FALSE, scheme |-> "", host |-> "", port |-> "", path |-> "", query |-> "", frag |-> ""]

DefaultPortOf(scheme) == IF scheme = "https" THEN "443" ELSE "80"

\* Remove "." and ".." segments of an absolute path (RFC 3986, 5.2.4).
RECURSIVE RemoveDots(_, _)
RemoveDots(p, a) ==
  Bind2(p, a, LAMBDA path, acc :
    IF Len(path) = 0 THEN acc
    ELSE
      LET rest == From(path, 2)
          cut  == Find(rest, "/")
          seg  == IF cut = 0 THEN rest ELSE SubSeq(rest, 1, cut - 1)
          tail == IF cut = 0 THEN "" ELSE From(rest, cut)
          up   == IF FindLast(acc, "/") = 0 THEN "" ELSE SubSeq(acc, 1, FindLast(acc, "/") - 1)
      IN  IF seg = "." THEN RemoveDots(tail, IF cut = 0 THEN acc \o "/" ELSE acc)
          ELSE IF seg = ".." THEN RemoveDots(tail, IF cut = 0 THEN up \o "/" ELSE up)
          ELSE RemoveDots(tail, acc \o "/" \o seg))

\* Url::parse for an http(s) URL: scheme://host[:port][/path][?query][#frag].
\* The default port is dropped and an empty path becomes "/".
ParseHttp(s) ==
  LET sep == Find(s, "://")
  IN  IF sep = 0 \/ SubSeq(s, 1, sep - 1) \notin {"http", "https"} THEN BadUrl
      ELSE
        LET scheme == SubSeq(s, 1, sep - 1)
            rest   == From(s, sep + 3)
            cut    == FindAny(rest, {"/", "?", "#"})
            auth   == IF cut = 0 THEN rest ELSE SubSeq(rest, 1, cut - 1)
            after  == IF cut = 0 THEN "" ELSE From(rest, cut)
            colon  == Find(auth, ":")
            host   == IF colon = 0 THEN auth ELSE SubSeq(auth, 1, colon - 1)
            port   == IF colon = 0 THEN "" ELSE From(auth, colon + 1)
            hash   == Find(after, "#")
            nofrag == IF hash = 0 THEN after ELSE SubSeq(after, 1, hash - 1)
            frag   == IF hash = 0 THEN "" ELSE From(after, hash)
            q      == Find(nofrag, "?")
            path   == IF q = 0 THEN nofrag ELSE SubSeq(nofrag, 1, q - 1)
            query  == IF q = 0 THEN "" ELSE From(nofrag, q)
        IN  IF host = "" THEN BadUrl
            ELSE [ok     |-> TRUE,
                  scheme |-> scheme,
                  host   |-> host,
                  port   |-> IF port = DefaultPortOf(scheme) THEN "" ELSE port,
                  path   |-> IF path = "" THEN "/" ELSE RemoveDots(path, ""),
                  query  |-> query,
                  frag   |-> frag]

ParseUrl(str) == Bind(str, LAMBDA s : ParseHttp(s))

\* Url::to_string / Url::as_str
UrlToString(u) ==
  u.scheme \o "://" \o u.host \o (IF u.port = "" THEN "" ELSE ":" \o u.port)
  \o u.path \o u.query \o u.frag

\* Whether a reference starts with a URL scheme ("http:", "data:", "mailto:").
HasScheme(r) ==
  LET colon == Find(r, ":")
  IN  colon > 1 /\ FindAny(SubSeq(r, 1, colon - 1), {"/", "?", "#", " "}) = 0

\* Url::join: resolve a reference against a base URL.  A reference with a
\* scheme other than http(s) is an opaque URL, kept as written.
Resolve(base, r) ==
  IF HasScheme(r)
  THEN IF ParseUrl(r).ok THEN ParseUrl(r)
       ELSE [ok |-> TRUE, scheme |-> SubSeq(r, 1, Find(r, ":") - 1), host |-> "",
             port |-> "", path |-> From(r, Find(r, ":") + 1), query |-> "", frag |-> "",
             opaque |-> TRUE]
  ELSE IF StartsWith(r, "//") THEN ParseUrl(base.scheme \o ":" \o r)
  ELSE
    LET hash   == Find(r, "#")
        nofrag == IF hash = 0 THEN r ELSE SubSeq(r, 1, hash - 1)
        rfrag  == IF hash = 0 THEN "" ELSE From(r, hash)
        q      == Find(nofrag, "?")
        rpath  == IF q = 0 THEN nofrag ELSE SubSeq(nofrag, 1, q - 1)
        rquery == IF q = 0 THEN "" ELSE From(nofrag, q)
        dir    == SubSeq(base.path, 1, FindLast(base.path, "/"))
    IN  IF rpath = ""
        THEN [base EXCEPT !.query = IF q = 0 THEN base.query ELSE rquery, !.frag = rfrag]
        ELSE IF StartsWith(rpath, "/")
        THEN [base EXCEPT !.path = RemoveDots(rpath, ""), !.query = rquery, !.frag = rfrag]
        ELSE [base EXCEPT !.path = RemoveDots(dir \o rpath, ""), !.query = rquery,
                          !.frag = rfrag]

Join(b, ref) == Bind2(b, ref, LAMBDA base, r : Resolve(base, r))

\* The string form of a joined URL.
JoinString(base, r) ==
  Bind(Join(base, r), LAMBDA u :
    IF "opaque" \in DOMAIN u THEN u.scheme \o ":" \o u.path ELSE UrlToString(u))

\* format!("{}://{}", url.scheme(), url.host_str().unwrap_or("localhost"))
DomainOf(u) == u.scheme \o "://" \o (IF u.host = "" THEN "localhost" ELSE u.host)

\* ------------------------------------------------------ fetch_article

CanonicalEmpty == "<!DOCTYPE html><html><head></head><body></body></html>"

\* The content-type check that lets a response without the header through.
IsHtmlContentType_OrAbsent(ctype) ==
  ~ctype.some \/ Contains(ctype.v, "text/html") \/ Contains(ctype.v, "application/xhtml")

\* !content_type.contains("text/html") && !content_type.contains("application/xhtml"),
\* negated; an absent or unreadable header is the empty string.
IsHtmlContentType(ctype) ==
  LET ct == IF ctype.some THEN ctype.v ELSE ""
  IN  Contains(ct, "text/html") \/ Contains(ct, "application/xhtml")

HasContentTag(s) ==
  \/ Contains(s, "<p") \/ Contains(s, "<div") \/ Contains(s, "<article")
  \/ Contains(s, "<main") \/ Contains(s, "<section") \/ Contains(s, "<h1")
  \/ Contains(s, "<h2") \/ Contains(s, "<span")

\* The minimal-document checks on the trimmed body: "exact", "pair" (short, with
\* both <head></head> and <body></body>), "bare" (short, no content tag), "no".
MinimalDocument(trimmed) ==
  IF trimmed = CanonicalEmpty THEN "exact"
  ELSE IF Len(trimmed) < MinimalLen
  THEN IF Contains(trimmed, "<head></head>") /\ Contains(trimmed, "<body></body>")
       THEN "pair"
       ELSE IF ~HasContentTag(trimmed) THEN "bare" ELSE "no"
  ELSE "no"

\* html.chars().take(100).any(|c| c.is_control() && c != '\n' && c != '\r' && c != '\t')
IsBinary(html) ==
  \E i \in 1..BinaryWindow :
    i <= Len(html) /\ IsControl(Char(html, i)) /\ Char(html, i) \notin {"\n", "\r", "\t"}

\* ^<!DOCTYPE html><html><head>\s*</head><body>\s*</body></html>$
MatchesSpacedEmpty(s) ==
  LET a == "<!DOCTYPE html><html><head>"
      b == "</head><body>"
      c == "</body></html>"
  IN  /\ StartsWith(s, a)
      /\ LET s1 == TrimStart(From(s, Len(a) + 1))
         IN  /\ StartsWith(s1, b)
             /\ TrimStart(From(s1, Len(b) + 1)) = c

\* The four regular expressions, on the body without \n and \r.
MatchesEmptyPattern(normalized) ==
  \/ normalized = "<!DOCTYPE html><html><head></head><body></body></html>"
  \/ normalized = "<!doctype html><html><head></head><body></body></html>"
  \/ normalized = "<html><head></head><body></body></html>"
  \/ MatchesSpacedEmpty(normalized)

\* html.len() < 200 && no <p, <div, <article, <main
IsSmallWithoutContent(html) ==
  /\ Len(html) < SmallLen
  /\ ~Contains(html, "<p") /\ ~Contains(html, "<div")
  /\ ~Contains(html, "<article") /\ ~Contains(html, "<main")

ArticleOk(value, step) == [kind |-> "Ok", value |-> value, step |-> step]
ArticleErr(value, step) == [kind |-> "Err", value |-> value, step |-> step]

\* The match with a failure of the extractor returned as an error.
Extracted_ErrOnFailure(ex) ==
  IF ~ex.ok THEN ArticleErr("Readability failed", "extract_failed")
  ELSE IF Trim(ex.content) = "" THEN ArticleOk(FALLBACK_SIGNAL, "extract_empty")
  ELSE ArticleOk(ex.content, "content")

\* The match on readability::extractor::extract's result.  The extractor is a
\* library: ex is whatever it answered, [ok |-> FALSE] or [ok |-> TRUE, content].
Extracted(ex) ==
  IF ~ex.ok THEN ArticleOk(FALLBACK_SIGNAL, "extract_failed")
  ELSE LET extracted == Trim(ex.content)
       IN  IF extracted = "" THEN ArticleOk(FALLBACK_SIGNAL, "extract_empty")
           ELSE IF /\ Len(extracted) < ExtractedMinLen
                   /\ (Contains(extracted, "<head></head>") \/ extracted = CanonicalEmpty)
           THEN ArticleOk(FALLBACK_SIGNAL, "extract_minimal")
           ELSE ArticleOk(ex.content, "content")

\* fetch_article / logic_fetch_article from the response on: the checks in the
\* order of the code.  The status of the response is never looked at.
ArticleResult(ctype, body, ex) ==
  Bind(body, LAMBDA html :
  IF ~IsHtmlContentType(ctype)
  THEN ArticleErr("Content type '" \o (IF ctype.some THEN ctype.v ELSE "") \o "' is not HTML",
                  "content_type")
  ELSE IF Trim(html) = "" THEN ArticleErr("Fetched HTML content is empty.", "empty")
  ELSE IF MinimalDocument(Trim(html)) # "no"
  THEN ArticleOk(FALLBACK_SIGNAL, MinimalDocument(Trim(html)))
  ELSE IF IsBinary(html)
  THEN ArticleErr("Content appears to be binary or corrupted.", "binary")
  ELSE IF MatchesEmptyPattern(RemoveChar(RemoveChar(Trim(html), "\n"), "\r"))
  THEN ArticleOk(FALLBACK_SIGNAL, "pattern")
  ELSE IF IsSmallWithoutContent(html) THEN ArticleOk(FALLBACK_SIGNAL, "small")
  ELSE Extracted(ex))

\* ------------------------------------------------------ the HTML rewriters

\* A body is a sequence of tokens: text kept as it is, or the start tag of an
\* element with the one attribute the rewriters look at.
Text(s) == [tag |-> "", attr |-> "", val |-> "", text |-> s]
Elem(tag, attr, val) == [tag |-> tag, attr |-> attr, val |-> val, text |-> ""]

TokenBytes(k) ==
  IF k.tag = "" THEN k.text
  ELSE IF k.attr = "" THEN "<" \o k.tag \o ">"
  ELSE "<" \o k.tag \o " " \o k.attr \o "=\"" \o k.val \o "\">"

\* The bytes of a body.
RECURSIVE Bytes(_)
Bytes(tokens) ==
  Bind(tokens, LAMBDA doc :
    IF doc = <<>> THEN "" ELSE TokenBytes(Head(doc)) \o Bytes(Tail(doc)))

\* Stands for the injected listener script (LISTENER_SCRIPT).
LISTENER_SCRIPT == "\n<script>/*listener*/</script>\n"

\* A proxy URL relative to the origin that serves the page.
ProxyUrl_Relative(proxy_port, absolute_url) ==
  Bind("/proxy?url=" \o UrlEncode(absolute_url), LAMBDA new_val : new_val)

\* format!("http://localhost:{}/proxy?url={}", proxy_port, urlencoding::encode(..))
ProxyUrl(proxy_port, absolute_url) ==
  Bind("http://localhost:" \o IntToStr(proxy_port) \o "/proxy?url=" \o UrlEncode(absolute_url),
       LAMBDA new_val : new_val)

AnyPrefix(v, ps) == \E p \in ps : StartsWith(v, p)

SrcSkip == {"data:", "blob:", "http://localhost:", "https://", "http://"}
HrefSkip == SrcSkip \cup {"#", "javascript:", "mailto:"}
ActionSkip == {"data:", "blob:", "http://localhost:", "#", "javascript:"}
PageSrcsetSkip == {"data:", "blob:", "http://localhost:"}

\* proxy_handler's absolute URL of a src or link href: protocol-relative,
\* domain root (scheme and host of the target, without its port), or joined.
PageAbsolute(target, v) ==
  IF StartsWith(v, "//") THEN target.scheme \o ":" \o v
  ELSE IF StartsWith(v, "/")
  THEN target.scheme \o "://" \o (IF target.host = "" THEN "localhost" ELSE target.host) \o v
  ELSE JoinString(target, v)

\* proxy_handler, element!("*[src]")
PageSrc(target, proxy_port, v) ==
  IF AnyPrefix(v, SrcSkip) THEN v ELSE ProxyUrl(proxy_port, PageAbsolute(target, v))

\* proxy_handler, element!("link[href], area[href]")
PageLinkHref(target, proxy_port, v) ==
  IF AnyPrefix(v, HrefSkip) THEN v ELSE ProxyUrl(proxy_port, PageAbsolute(target, v))

\* The a[href] rule of proxy_resource_handler, as a rule of proxy_handler.
PageAHref_ThroughProxy(target, proxy_port, v) ==
  IF AnyPrefix(v, HrefSkip) THEN v ELSE ProxyUrl(proxy_port, JoinString(target, v))

\* proxy_handler, element!("a[href]"): a domain-root link loses its leading
\* slash, every other link is kept as it is.
PageAHref(target, proxy_port, v) ==
  IF AnyPrefix(v, HrefSkip) THEN v
  ELSE IF StartsWith(v, "/") THEN From(v, 2) ELSE v

\* proxy_handler, element!("form[action]")
PageFormAction(target, proxy_port, v) ==
  IF AnyPrefix(v, ActionSkip) THEN v ELSE ProxyUrl(proxy_port, JoinString(target, v))

\* proxy_resource_handler, element!("*[src]")
ResourceSrc(target, proxy_port, v) ==
  IF AnyPrefix(v, SrcSkip) THEN v ELSE ProxyUrl(proxy_port, JoinString(target, v))

\* proxy_resource_handler, element!("link[href], area[href]")
ResourceLinkHref(target, proxy_port, v) ==
  IF AnyPrefix(v, HrefSkip) THEN v ELSE ProxyUrl(proxy_port, JoinString(target, v))

\* proxy_resource_handler, element!("a[href]")
ResourceAHref(target, proxy_port, v) ==
  IF AnyPrefix(v, HrefSkip) THEN v ELSE ProxyUrl(proxy_port, JoinString(target, v))

\* str::split(',')
RECURSIVE SplitComma(_)
SplitComma(str) ==
  Bind2(str, Find(str, ","), LAMBDA s, i :
    IF i = 0 THEN <<s>> ELSE <<SubSeq(s, 1, i - 1)>> \o SplitComma(From(s, i + 1)))

\* str::split_whitespace
RECURSIVE SplitWhitespace(_)
SplitWhitespace(s) ==
  Bind(TrimStart(s), LAMBDA t :
    LET i == FindAny(t, WhiteSpace)
    IN  IF t = "" THEN <<>>
        ELSE IF i = 0 THEN <<t>>
        ELSE <<SubSeq(t, 1, i - 1)>> \o SplitWhitespace(From(t, i)))

\* What one srcset candidate adds to new_srcset.
SrcsetCandidate(target, proxy_port, skip, src_descriptor) ==
  Bind(SplitWhitespace(Trim(src_descriptor)), LAMBDA parts :
    IF parts = <<>> THEN ""
    ELSE IF AnyPrefix(parts[1], skip) THEN src_descriptor \o ", "
    ELSE ProxyUrl(proxy_port, JoinString(target, parts[1]))
         \o (IF Len(parts) > 1 THEN " " \o parts[2] ELSE "") \o ", ")

RECURSIVE SrcsetJoin(_, _, _, _)
SrcsetJoin(target, proxy_port, skip, candidates) ==
  Bind(candidates, LAMBDA cands :
    IF cands = <<>> THEN ""
    ELSE SrcsetCandidate(target, proxy_port, skip, Head(cands))
         \o SrcsetJoin(target, proxy_port, skip, Tail(cands)))

\* element!("*[srcset]") of either handler, which differ in the prefixes skipped.
Srcset(target, proxy_port, skip, v) ==
  Bind(SrcsetJoin(target, proxy_port, skip, SplitComma(v)), LAMBDA new_srcset :
    IF EndsWith(new_srcset, ", ")
    THEN SubSeq(new_srcset, 1, Len(new_srcset) - 2)
    ELSE new_srcset)

\* proxy_handler: the value its element handlers leave in attribute attr of <tag>.
PageRewriteAttr(url, proxy_port, tag, attr, v) ==
  Bind(url, LAMBDA target :
  IF attr = "src" THEN PageSrc(target, proxy_port, v)
  ELSE IF attr = "href" /\ tag \in {"link", "area"} THEN PageLinkHref(target, proxy_port, v)
  ELSE IF attr = "href" /\ tag = "a" THEN PageAHref(target, proxy_port, v)
  ELSE IF attr = "action" /\ tag = "form" THEN PageFormAction(target, proxy_port, v)
  ELSE IF attr = "srcset" THEN Srcset(target, proxy_port, PageSrcsetSkip, v)
  ELSE v)

\* proxy_resource_handler: the same, with its own handlers (none for form[action]).
ResourceRewriteAttr(url, proxy_port, tag, attr, v) ==
  Bind(url, LAMBDA target :
  IF attr = "src" THEN ResourceSrc(target, proxy_port, v)
  ELSE IF attr = "href" /\ tag \in {"link", "area"} THEN ResourceLinkHref(target, proxy_port, v)
  ELSE IF attr = "href" /\ tag = "a" THEN ResourceAHref(target, proxy_port, v)
  ELSE IF attr = "srcset" THEN Srcset(target, proxy_port, SrcSkip, v)
  ELSE v)

RewriteAttr(handler, target, proxy_port, tag, attr, v) ==
  IF handler = "page"
  THEN PageRewriteAttr(target, proxy_port, tag, attr, v)
  ELSE ResourceRewriteAttr(target, proxy_port, tag, attr, v)

\* element!("body"): the script is appended as the last child of <body>, that
\* is before its end tag.
RECURSIVE InjectScript(_, _)
InjectScript(tokens, inBody) ==
  Bind(tokens, LAMBDA doc :
    IF doc = <<>> THEN <<>>
    ELSE LET k == Head(doc)
         IN  IF inBody /\ k = Text("</body>")
             THEN <<Text(LISTENER_SCRIPT), k>> \o Tail(doc)
             ELSE <<k>> \o InjectScript(Tail(doc), inBody \/ k.tag = "body"))

\* HtmlRewriter over a whole body: every element handler, then the output.
RewriteDocument(handler, target, proxy_port, doc) ==
  InjectScript(
    [i \in 1..Len(doc) |->
       IF doc[i].tag = "" \/ doc[i].attr = "" THEN doc[i]
       ELSE [doc[i] EXCEPT !.val =
               RewriteAttr(handler, target, proxy_port, doc[i].tag, doc[i].attr, doc[i].val)]],
    FALSE)

\* ------------------------------------------------------------------- state

VARIABLES
  base_url,          \* ProxyState.base_url
  port,              \* ProxyState.port: Option<u16>
  auth_credentials,  \* ProxyState.auth_credentials: HashMap<String, (String, String)>
  listeners,         \* the ports of the listener tasks start_proxy_server spawned
  pc,                \* where each task stands in the operation it runs
  loc,               \* the locals of that operation
  out,               \* the outbound request the operation sent, if any
  ret,               \* what the operation returned, if it has returned
  overlap,           \* history: a start_proxy call began while another was running
  returned,          \* history: the ports start_proxy calls have returned
  art,               \* SpecArticle: a response and fetch_article's answer to it
  rw,                \* SpecRewrite: an attribute and a rewriter's answer to it
  cookie_jar,        \* shared.rs ProxyState.cookie_jar: the cookies stored, by origin
  held               \* the ProxyState locks whose guard each task holds

vars ==
  <<base_url, port, auth_credentials, listeners, pc, loc, out, ret, overlap, returned,
    art, rw, cookie_jar, held>>

store == <<base_url, port, auth_credentials>>
pure == <<art, rw>>

Tasks == 1..MaxTasks

\* The ports portpicker::pick_unused_port may return.
Ports == 15001..(15000 + MaxPorts)

NoLocals == [op |-> "none"]

\* Mutex::lock returns once no task holds the guard of the lock.
Free(lock) == \A t \in Tasks : lock \notin held[t]

InitStore ==
  /\ base_url = ParseUrl("http://localhost")
  /\ port = None
  /\ auth_credentials = [d \in {} |-> <<>>]
  /\ listeners = <<>>
  /\ cookie_jar = {}

InitTasks ==
  /\ pc = [t \in Tasks |-> "idle"]
  /\ loc = [t \in Tasks |-> NoLocals]
  /\ out = [t \in Tasks |-> None]
  /\ ret = [t \in Tasks |-> None]
  /\ overlap = FALSE
  /\ returned = {}
  /\ held = [t \in Tasks |-> {}]

InitPure ==
  /\ art = [stage |-> "unused"]
  /\ rw = [stage |-> "unused"]

\* The task starts an operation: what the previous one sent and returned is gone.
Begin(t, at, locals) ==
  /\ pc' = [pc EXCEPT ![t] = at]
  /\ loc' = [loc EXCEPT ![t] = locals]
  /\ out' = [out EXCEPT ![t] = None]
  /\ ret' = [ret EXCEPT ![t] = None]

\* The operation returns r.
Return(t, r) ==
  /\ pc' = [pc EXCEPT ![t] = "idle"]
  /\ ret' = [ret EXCEPT ![t] = Some(r)]

\* ------------------------------------------------------------- start_proxy

InStartProxy(t) == pc[t] \in {"sp_server", "sp_store"}

\* start_proxy without its "already running" check.
StartProxyCheck_Always(t) ==
  /\ pc[t] = "idle"
  /\ overlap' = (overlap \/ \E o \in Tasks \ {t} : InStartProxy(o))
  /\ Begin(t, "sp_server", [op |-> "start_proxy"])
  /\ UNCHANGED <<store, listeners, returned, pure, cookie_jar, held>>

\* start_proxy with port_guard alive until the end of the function.
StartProxyCheck_GuardKept(t) ==
  /\ pc[t] = "idle"
  /\ Free("port")
  /\ overlap' = (overlap \/ \E o \in Tasks \ {t} : InStartProxy(o))
  /\ IF port.some
     THEN /\ loc' = [loc EXCEPT ![t] = [op |-> "start_proxy"]]
          /\ out' = [out EXCEPT ![t] = None]
          /\ Return(t, [op |-> "start_proxy", kind |-> "Ok", port |-> port.v])
          /\ returned' = returned \cup {port.v}
          /\ held' = [held EXCEPT ![t] = {}]
     ELSE /\ Begin(t, "sp_server", [op |-> "start_proxy"])
          /\ held' = [held EXCEPT ![t] = {"port"}]
          /\ UNCHANGED returned
  /\ UNCHANGED <<store, listeners, pure, cookie_jar>>

\* start_proxy up to the release of the port lock: return the existing port, or
\* go on to start a server.
StartProxyCheck(t) ==
  /\ pc[t] = "idle"
  /\ Free("port")
  /\ overlap' = (overlap \/ \E o \in Tasks \ {t} : InStartProxy(o))
  /\ IF port.some
     THEN /\ loc' = [loc EXCEPT ![t] = [op |-> "start_proxy"]]
          /\ out' = [out EXCEPT ![t] = None]
          /\ Return(t, [op |-> "start_proxy", kind |-> "Ok", port |-> port.v])
          /\ returned' = returned \cup {port.v}
     ELSE /\ Begin(t, "sp_server", [op |-> "start_proxy"])
          /\ UNCHANGED returned
  /\ held' = [held EXCEPT ![t] = {}]
  /\ UNCHANGED <<store, listeners, pure, cookie_jar>>

\* start_proxy_server: pick a free port and spawn the listener task on it.  The
\* listener binds later, inside the spawned task, so two calls in flight can be
\* handed the same port or different ones.
StartProxyServer(t) ==
  /\ pc[t] = "sp_server"
  /\ \E p \in Ports :
       /\ listeners' = Append(listeners, p)
       /\ loc' = [loc EXCEPT ![t] = [op |-> "start_proxy", port |-> p]]
  /\ pc' = [pc EXCEPT ![t] = "sp_store"]
  /\ UNCHANGED <<store, out, ret, overlap, returned, pure, cookie_jar, held>>

\* start_proxy after the await: store the port and return it.
StartProxyStore(t) ==
  /\ pc[t] = "sp_store"
  /\ Free("port")
  /\ port' = Some(loc[t].port)
  /\ Return(t, [op |-> "start_proxy", kind |-> "Ok", port |-> loc[t].port])
  /\ returned' = returned \cup {loc[t].port}
  /\ held' = [held EXCEPT ![t] = {}]
  /\ UNCHANGED <<base_url, auth_credentials, listeners, loc, out, overlap, pure, cookie_jar>>

StartProxy(t) == StartProxyCheck(t) \/ StartProxyServer(t) \/ StartProxyStore(t)

InitStart == InitStore /\ InitTasks /\ InitPure

NextStart == \E t \in Tasks : StartProxy(t)

SpecStart == InitStart /\ [][NextStart]_vars

\* C1: when no start_proxy call began while another was running (each call
\* begins after the previous one returned), every call returned the same port
\* and start_proxy_server was invoked by the first call only.
C1_SequentialStartIdempotent ==
  ~overlap =>
    /\ Cardinality(returned) <= 1
    /\ Len(listeners) <= 1
    /\ (returned # {} => Len(listeners) = 1 /\ returned = {listeners[1]})

\* Two calls, one after the other, have both returned.
C1_Witness ==
  /\ ~overlap
  /\ \E a, b \in Tasks :
       /\ a # b
       /\ ret[a].some /\ ret[a].v.op = "start_proxy"
       /\ ret[b].some /\ ret[b].v.op = "start_proxy"
       /\ ret[a].v.port = ret[b].v.port
  /\ Len(listeners) = 1

\* C2: in every interleaving of start_proxy calls the port is written once: at
\* most one listener is spawned and every call returns the same port.
C2_StartOnceInEveryInterleaving ==
  /\ Len(listeners) <= 1
  /\ Cardinality(returned) <= 1

\* ------------------------------------------------------------ the session

\* The task that issues commands and proxy requests, one at a time, and the
\* task that runs start_proxy.
Client == CHOOSE t \in Tasks : \A o \in Tasks : t <= o
Starter == CHOOSE t \in Tasks : \A o \in Tasks : t >= o

\* HashMap::get / insert / remove on auth_credentials.
Get(m, k) == IF k \in DOMAIN m THEN Some(m[k]) ELSE None
Insert(m, k, v) == [d \in DOMAIN m \cup {k} |-> IF d = k THEN v ELSE m[d]]
Remove(m, k) == [d \in DOMAIN m \ {k} |-> m[d]]

\* RequestBuilder::basic_auth: the Authorization header of a user and password
\* (user:password, before its base64 encoding).
BasicAuth(c) == <<"authorization", "Basic " \o c[1] \o ":" \o c[2]>>

\* The inbound headers proxy_handler copies, with the inbound Authorization.
ForwardedHeaders_All(headers) ==
  {h \in headers : h[1] \notin {"host", "connection"}}

\* for (name, value) in parts.headers.iter(): every inbound header but Host,
\* Connection and Authorization.
ForwardedHeaders(headers) ==
  {h \in headers : h[1] \notin {"host", "connection", "authorization"}}

\* The outbound request: the headers the operation adds to the ones it copied.
\* stored is what auth_credentials holds for the domain when the request leaves,
\* jar the cookies cookie_jar holds for the host.
Request(op, target, copied, creds, seen, referer) ==
  [op      |-> op,
   url     |-> UrlToString(target),
   domain  |-> DomainOf(target),
   headers |-> copied
               \cup (IF creds.some THEN {BasicAuth(creds.v)} ELSE {})
               \cup (IF referer.some THEN {<<"referer", referer.v>>} ELSE {}),
   seen    |-> seen,
   stored  |-> Get(auth_credentials, DomainOf(target)),
   jar     |-> {c \in cookie_jar : c[1] = target.host}]

\* str::replace('\'', "\\'")
RECURSIVE EscapeQuote(_)
EscapeQuote(str) ==
  Bind(str, LAMBDA s :
    IF Len(s) = 0 THEN ""
    ELSE IF Len(s) = 1 THEN (IF s = "'" THEN "\\'" ELSE s)
    ELSE EscapeQuote(SubSeq(s, 1, Len(s) \div 2)) \o EscapeQuote(From(s, (Len(s) \div 2) + 1)))

\* An auth-required page that does not say which domain asks.
AuthPage_Anonymous(domain) ==
  "<!DOCTYPE html>\n<html>\n<body>\n<script>\n"
  \o "window.parent.postMessage({ type: 'PROXY_AUTH_REQUIRED' }, '*');\n</script>\n"
  \o "</body>\n</html>"

\* auth_html
AuthPage(domain) ==
  "<!DOCTYPE html>\n<html>\n<head><meta charset=\"UTF-8\"></head>\n<body>\n<script>\n"
  \o "window.parent.postMessage({\n  type: 'PROXY_AUTH_REQUIRED',\n  domain: '"
  \o EscapeQuote(domain) \o "'\n}, '*');\n</script>\n"
  \o "<p style=\"font-family: system-ui; text-align: center; padding: 2rem;\">\n"
  \o "Authentication required for " \o domain \o "\n</p>\n</body>\n</html>"

\* The response r of the upstream at target.
Answered(target, r) ==
  Some([url |-> UrlToString(target), domain |-> DomainOf(target), response |-> r])

\* What an operation returns.  upstream is the response it received, if any.
Ok(op, value, upstream) == [op |-> op, kind |-> "Ok", value |-> value, upstream |-> upstream]
Err(op, value, upstream) == [op |-> op, kind |-> "Err", value |-> value, upstream |-> upstream]
\* Err(StatusCode): a response with that status, no header of the handler's
\* and an empty body.
StatusOnly(op, status, upstream) ==
  [op |-> op, kind |-> "Status", status |-> status, headers |-> {}, upstream |-> upstream]
Http(op, status, headers, body, rewritten, upstream) ==
  [op |-> op, kind |-> "Http", status |-> status, headers |-> headers, body |-> body,
   rewritten |-> rewritten, upstream |-> upstream]

\* The operation is over: its locals and its request are gone.
Finish(t, r) ==
  /\ pc' = [pc EXCEPT ![t] = "idle"]
  /\ loc' = [loc EXCEPT ![t] = NoLocals]
  /\ out' = [out EXCEPT ![t] = None]
  /\ ret' = [ret EXCEPT ![t] = Some(r)]

\* One step of an operation, to the point at.
Step(t, at, locals) ==
  /\ pc' = [pc EXCEPT ![t] = at]
  /\ loc' = [loc EXCEPT ![t] = locals]
  /\ UNCHANGED <<out, ret>>

\* The request leaves; the operation waits for the response.
Send(t, at, request) ==
  /\ pc' = [pc EXCEPT ![t] = at]
  /\ out' = [out EXCEPT ![t] = Some(request)]
  /\ UNCHANGED <<loc, ret>>

\* ---- inputs

SetUrls == {"https://example.com/blog/post", "not a url"}
FetchUrls == {"https://example.com/blog/post", "http://other.org/", "not a url"}
AuthDomains == {"https://example.com"}
Credentials == {<<"u", "p">>, <<"u2", "p2">>}
Paths == {"blog/b.html", "img/a.png", "assets/app", "img/a%2Fb.png"}
UrlParams == {None, Some("https%3A%2F%2Fexample.com%2Fimg%2Fa.png"), Some("nonsense")}
InboundHeaders ==
  { {},
    {<<"authorization", "Bearer inbound">>, <<"accept", "image/*">>, <<"host", "localhost">>} }

HtmlPage ==
  <<Text("<html>"), Elem("body", "", ""), Elem("img", "src", "/img/a.png"),
    Elem("a", "href", "b.html"), Text("</body>"), Text("</html>")>>
PngImage == <<Text("\fPNG"), Text("<img src=\"/img/a.png\">")>>

\* The headers of an upstream response, next to its Content-Type.
UpstreamHeaders ==
  { <<"content-length", "42">>, <<"content-security-policy", "default-src 'self'">>,
    <<"x-frame-options", "DENY">>, <<"transfer-encoding", "chunked">>,
    <<"etag", "\"v1\"">>, <<"set-cookie", "session=abc">> }

NetworkFailure == [failed |-> TRUE]
Responses ==
  {NetworkFailure} \cup
  [failed : {FALSE}, status : {200, Unauthorized, 404},
   ctype : {None, Some("text/html; charset=utf-8"), Some("image/png")},
   headers : {UpstreamHeaders},
   body : {HtmlPage, PngImage}]

SessionExtractions == {[ok |-> FALSE], [ok |-> TRUE, content |-> Bytes(HtmlPage)]}

\* ---- commands that return at once

\* The points of a handler between the resolution of its target and its answer.
HandlerPoints ==
  {"rh_creds", "rh_send", "rh_response", "ph_port", "ph_creds", "ph_send", "ph_response"}

\* set_proxy_url that also points the requests in flight at the new URL.
SetProxyUrl_Retarget ==
  /\ Free("base_url")
  /\ \E url \in SetUrls :
       \E new_url \in {ParseUrl(url)} :
         /\ base_url' = IF new_url.ok THEN new_url ELSE base_url
         /\ loc' = [t \in Tasks |->
                      IF new_url.ok /\ pc[t] \in HandlerPoints
                      THEN [loc[t] EXCEPT !.target = new_url]
                      ELSE loc[t]]
  /\ UNCHANGED <<port, auth_credentials, listeners, pc, out, ret, overlap, returned, pure, cookie_jar, held>>

\* set_proxy_url
SetProxyUrl ==
  /\ Free("base_url")
  /\ \E url \in SetUrls :
       base_url' = IF ParseUrl(url).ok THEN ParseUrl(url) ELSE base_url
  /\ UNCHANGED <<port, auth_credentials, listeners, pc, loc, out, ret, overlap, returned, pure, cookie_jar, held>>

\* set_proxy_auth, called with one of these domains.
SetProxyAuthOn(domains) ==
  /\ Free("auth_credentials")
  /\ \E domain \in domains, c \in Credentials :
       auth_credentials' = Insert(auth_credentials, domain, c)
  /\ UNCHANGED <<base_url, port, listeners, pc, loc, out, ret, overlap, returned, pure, cookie_jar, held>>

\* clear_proxy_auth that empties the table.
ClearProxyAuthOn_All(domains) ==
  /\ Free("auth_credentials")
  /\ \E domain \in domains :
       auth_credentials' = [d \in {} |-> <<>>]
  /\ UNCHANGED <<base_url, port, listeners, pc, loc, out, ret, overlap, returned, pure, cookie_jar, held>>

\* clear_proxy_auth, called with one of these domains.
ClearProxyAuthOn(domains) ==
  /\ Free("auth_credentials")
  /\ \E domain \in domains :
       auth_credentials' = Remove(auth_credentials, domain)
  /\ UNCHANGED <<base_url, port, listeners, pc, loc, out, ret, overlap, returned, pure, cookie_jar, held>>

SetProxyAuth == SetProxyAuthOn(AuthDomains)

ClearProxyAuth == ClearProxyAuthOn(AuthDomains)

\* ---- fetch_raw_html

\* Url::parse, the domain and the credential lookup.
FetchRawHtmlBegin(t) ==
  /\ pc[t] = "idle"
  /\ Free("auth_credentials")
  /\ \E url \in FetchUrls :
       \E url_obj \in {ParseUrl(url)} :
         IF ~url_obj.ok
         THEN Finish(t, Err("fetch_raw_html", "relative URL without a base", None))
         ELSE /\ Begin(t, "frh_send",
                       [op |-> "fetch_raw_html", target |-> url_obj,
                        auth_credentials |-> Get(auth_credentials, DomainOf(url_obj)),
                        seen |-> auth_credentials])
  /\ UNCHANGED <<store, listeners, overlap, returned, pure, cookie_jar, held>>

\* request_builder.send()
FetchRawHtmlSend(t) ==
  /\ pc[t] = "frh_send"
  /\ Send(t, "frh_response",
          Request("fetch_raw_html", loc[t].target, {}, loc[t].auth_credentials,
                  loc[t].seen, None))
  /\ UNCHANGED <<store, listeners, overlap, returned, pure, cookie_jar, held>>

\* The response: the 401 check, then the text of the body.
FetchRawHtmlResponse(t) ==
  /\ pc[t] = "frh_response"
  /\ \E r \in Responses :
       IF r.failed THEN Finish(t, Err("fetch_raw_html", "error sending request", None))
       ELSE IF r.status = Unauthorized
       THEN Finish(t, Err("fetch_raw_html", "AUTH_REQUIRED:" \o DomainOf(loc[t].target),
                       Answered(loc[t].target, r)))
       ELSE Finish(t, Ok("fetch_raw_html", Bytes(r.body), Answered(loc[t].target, r)))
  /\ UNCHANGED <<store, listeners, overlap, returned, pure, cookie_jar, held>>

FetchRawHtml(t) == FetchRawHtmlBegin(t) \/ FetchRawHtmlSend(t) \/ FetchRawHtmlResponse(t)

\* ---- fetch_article

\* Url::parse and the request, which is built from the URL alone.
FetchArticleSend(t) ==
  /\ pc[t] = "idle"
  /\ \E url \in FetchUrls :
       \E url_obj \in {ParseUrl(url)} :
         IF ~url_obj.ok
         THEN Finish(t, Err("fetch_article", "relative URL without a base", None))
         ELSE /\ pc' = [pc EXCEPT ![t] = "fa_response"]
              /\ loc' = [loc EXCEPT ![t] = [op |-> "fetch_article", target |-> url_obj]]
              /\ out' = [out EXCEPT ![t] =
                           Some(Request("fetch_article", url_obj, {}, None, auth_credentials,
                                        None))]
              /\ ret' = [ret EXCEPT ![t] = None]
  /\ UNCHANGED <<store, listeners, overlap, returned, pure, cookie_jar, held>>

\* The response: the content-type check, the heuristics and the extraction.
FetchArticleResponse(t) ==
  /\ pc[t] = "fa_response"
  /\ \E r \in Responses :
       IF r.failed THEN Finish(t, Err("fetch_article", "error sending request", None))
       ELSE \E ex \in SessionExtractions :
              \E a \in {ArticleResult(r.ctype, Bytes(r.body), ex)} :
                Finish(t, [op |-> "fetch_article", kind |-> a.kind, value |-> a.value,
                           upstream |-> Answered(loc[t].target, r)])
  /\ UNCHANGED <<store, listeners, overlap, returned, pure, cookie_jar, held>>

FetchArticle(t) == FetchArticleSend(t) \/ FetchArticleResponse(t)

\* ---- proxy_resource_handler

\* From the url parameter to the target: urlencoding::decode and Url::parse.
\* A missing parameter or an unparsable URL is answered 400.
\* base is the base_url proxy_handler read and path the path it was given,
\* when the request came through it.
ResourceEntry(t, op, param, headers, base, path) ==
  IF ~param.some THEN Finish(t, StatusOnly(op, 400, None))
  ELSE \E target_url \in {ParseUrl(UrlDecode(param.v))} :
         IF ~target_url.ok THEN Finish(t, StatusOnly(op, 400, None))
         ELSE Begin(t, "rh_creds",
                    [op |-> op, target |-> target_url, headers |-> headers, base_url |-> base,
                     path |-> path])

\* GET /proxy?url=...: the Query extractor decodes the parameter once.
ResourceHandlerBegin(t) ==
  /\ pc[t] = "idle"
  /\ Len(listeners) > 0
  /\ \E q \in UrlParams, headers \in InboundHeaders :
       ResourceEntry(t, "proxy_resource_handler",
                     IF q.some THEN Some(UrlDecode(q.v)) ELSE None, headers, None, None)
  /\ UNCHANGED <<store, listeners, overlap, returned, pure, cookie_jar, held>>

\* The credential lookup for the target's domain.
ResourceHandlerCreds(t) ==
  /\ pc[t] = "rh_creds"
  /\ Free("auth_credentials")
  /\ Step(t, "rh_send",
          [op |-> loc[t].op, target |-> loc[t].target, headers |-> loc[t].headers,
           base_url |-> loc[t].base_url, path |-> loc[t].path,
           auth_credentials |-> Get(auth_credentials, DomainOf(loc[t].target)),
           seen |-> auth_credentials])
  /\ UNCHANGED <<store, listeners, overlap, returned, pure, cookie_jar, held>>

\* After to_bytes: the request, with base_url as its Referer and none of the
\* inbound headers.
ResourceHandlerSend(t) ==
  /\ pc[t] = "rh_send"
  /\ Free("base_url")
  /\ Send(t, "rh_response",
          Request(loc[t].op, loc[t].target, {}, loc[t].auth_credentials, loc[t].seen,
                  Some(UrlToString(base_url))))
  /\ UNCHANGED <<store, listeners, overlap, returned, pure, cookie_jar, held>>

\* content_type.contains("text/html"), with every response taken for HTML.
IsTextHtml_Always(content_type) == TRUE

\* content_type.contains("text/html"); an absent header is the empty string.
IsTextHtml(content_type) ==
  Contains(IF content_type.some THEN content_type.v ELSE "", "text/html")

\* The CORS headers the handlers add.
CorsHeaders ==
  { <<"access-control-allow-origin", "*">>,
    <<"access-control-allow-methods", "GET, POST, OPTIONS">>,
    <<"access-control-allow-headers", "Content-Type, Authorization">> }

\* The headers of the upstream response r, Content-Type among them.
HeadersOf(r) ==
  r.headers \cup (IF r.ctype.some THEN {<<"content-type", r.ctype.v>>} ELSE {})

\* for (key, value) in response.headers(): every header but Content-Length,
\* Content-Security-Policy, X-Frame-Options and Transfer-Encoding.
CopiedHeaders(r) ==
  {h \in HeadersOf(r) :
     h[1] \notin {"content-length", "content-security-policy", "x-frame-options",
                  "transfer-encoding"}}

\* What either handler answers to the upstream response r.
HandlerResponse(op, handler, target, proxy_port, r) ==
  IF r.failed THEN StatusOnly(op, 502, Answered(target, r))
  ELSE IF r.status = Unauthorized
  THEN Http(op, 200, {<<"content-type", "text/html; charset=utf-8">>},
            AuthPage(DomainOf(target)), FALSE, Answered(target, r))
  ELSE IF IsTextHtml(r.ctype)
  THEN Http(op, r.status, CorsHeaders \cup CopiedHeaders(r),
            Bytes(RewriteDocument(handler, target, proxy_port, r.body)),
            TRUE, Answered(target, r))
  ELSE Http(op, r.status, CorsHeaders \cup CopiedHeaders(r), Bytes(r.body), FALSE,
            Answered(target, r))

\* The response; the port is read once the response is there.
ResourceHandlerResponse(t) ==
  /\ pc[t] = "rh_response"
  /\ Free("port")
  /\ \E r \in Responses :
       Finish(t, HandlerResponse(loc[t].op, "resource", loc[t].target,
                                 IF port.some THEN port.v ELSE DefaultPort, r))
  /\ UNCHANGED <<store, listeners, overlap, returned, pure, cookie_jar, held>>

ProxyResourceHandler(t) ==
  \/ ResourceHandlerBegin(t) \/ ResourceHandlerCreds(t)
  \/ ResourceHandlerSend(t) \/ ResourceHandlerResponse(t)

\* ---- proxy_handler

IsResource(path) ==
  \/ \E e \in {".css", ".js", ".png", ".jpg", ".jpeg", ".gif", ".svg", ".ico", ".woff",
               ".woff2", ".ttf", ".eot"} : EndsWith(path, e)
  \/ \E d \in {"assets/", "images/", "fonts/"} : StartsWith(path, d)

\* GET /*path: base_url is read; a resource path goes to proxy_resource_handler
\* with the URL of the path at the root of base_url's domain.
ProxyHandlerBegin(t) ==
  /\ pc[t] = "idle"
  /\ Free("base_url")
  /\ Len(listeners) > 0
  /\ \E path \in Paths, headers \in InboundHeaders :
       IF IsResource(path)
       THEN ResourceEntry(t, "proxy_handler", Some(DomainOf(base_url) \o "/" \o path), headers,
                          Some(base_url), Some(path))
       ELSE Begin(t, "ph_port",
                  [op |-> "proxy_handler", target |-> Join(base_url, path), headers |-> headers,
                   base_url |-> Some(base_url), path |-> Some(path)])
  /\ UNCHANGED <<store, listeners, overlap, returned, pure, cookie_jar, held>>

\* state.port.lock().unwrap().unwrap_or(3000)
ProxyHandlerPort(t) ==
  /\ pc[t] = "ph_port"
  /\ Free("port")
  /\ Step(t, "ph_creds",
          [op |-> loc[t].op, target |-> loc[t].target, headers |-> loc[t].headers,
           base_url |-> loc[t].base_url, path |-> loc[t].path,
           proxy_port |-> IF port.some THEN port.v ELSE DefaultPort])
  /\ UNCHANGED <<store, listeners, overlap, returned, pure, cookie_jar, held>>

\* The credential lookup for the target's domain.
ProxyHandlerCreds(t) ==
  /\ pc[t] = "ph_creds"
  /\ Free("auth_credentials")
  /\ Step(t, "ph_send",
          [op |-> loc[t].op, target |-> loc[t].target, headers |-> loc[t].headers,
           base_url |-> loc[t].base_url, path |-> loc[t].path,
           proxy_port |-> loc[t].proxy_port,
           auth_credentials |-> Get(auth_credentials, DomainOf(loc[t].target)),
           seen |-> auth_credentials])
  /\ UNCHANGED <<store, listeners, overlap, returned, pure, cookie_jar, held>>

\* After to_bytes: the request, with the inbound headers the filter lets
\* through and base_url, read again, as its Referer.
ProxyHandlerSend(t) ==
  /\ pc[t] = "ph_send"
  /\ Free("base_url")
  /\ Send(t, "ph_response",
          Request(loc[t].op, loc[t].target, ForwardedHeaders(loc[t].headers),
                  loc[t].auth_credentials, loc[t].seen, Some(UrlToString(base_url))))
  /\ UNCHANGED <<store, listeners, overlap, returned, pure, cookie_jar, held>>

\* The response, with a failed fetch sent again.
ProxyHandlerResponse_Retry(t) ==
  /\ pc[t] = "ph_response"
  /\ \E r \in Responses :
       IF r.failed
       THEN /\ pc' = [pc EXCEPT ![t] = "ph_send"]
            /\ UNCHANGED <<loc, out, ret>>
       ELSE Finish(t, HandlerResponse(loc[t].op, "page", loc[t].target, loc[t].proxy_port, r))
  /\ UNCHANGED <<store, listeners, overlap, returned, pure, cookie_jar, held>>

\* client.execute(client_req) has answered or failed: the handler answers.
ProxyHandlerResponse(t) ==
  /\ pc[t] = "ph_response"
  /\ \E r \in Responses :
       Finish(t, HandlerResponse(loc[t].op, "page", loc[t].target, loc[t].proxy_port, r))
  /\ UNCHANGED <<store, listeners, overlap, returned, pure, cookie_jar, held>>

ProxyHandler(t) ==
  \/ ProxyHandlerBegin(t) \/ ProxyHandlerPort(t) \/ ProxyHandlerCreds(t)
  \/ ProxyHandlerSend(t) \/ ProxyHandlerResponse(t)

\* ---- OPTIONS requests

\* The paths of the OPTIONS requests that reach the listener.
RequestPaths == {"/", "/proxy", "/blog/b.html", "/img/a.png"}

\* The Router of start_proxy_server: /proxy, then the wildcard /*path, which
\* matches every path but the empty one; a path without a route is not found.
Route(method, path) ==
  IF path = "/proxy"
  THEN (IF method = "GET" THEN "proxy_resource_handler"
        ELSE IF method = "OPTIONS" THEN "cors_options_handler" ELSE "method_not_allowed")
  ELSE IF Len(path) > 1 /\ StartsWith(path, "/")
  THEN (IF method = "GET" THEN "proxy_handler"
        ELSE IF method = "OPTIONS" THEN "cors_options_handler" ELSE "method_not_allowed")
  ELSE "not_found"

\* cors_options_handler
CorsOptionsResponse ==
  [kind |-> "Http", status |-> 204,
   headers |-> CorsHeaders \cup {<<"access-control-max-age", "86400">>},
   body |-> "", rewritten |-> FALSE, upstream |-> None]

\* An OPTIONS request: the router's answer, from cors_options_handler or, on a
\* path without a route, the router's own 404.
OptionsRequest(t) ==
  /\ pc[t] = "idle"
  /\ Len(listeners) > 0
  /\ \E path \in RequestPaths :
       \E answer \in {IF Route("OPTIONS", path) = "cors_options_handler"
                      THEN CorsOptionsResponse
                      ELSE [kind |-> "Status", status |-> 404, headers |-> {},
                            upstream |-> None]} :
         Finish(t, [op |-> "options", path |-> path] @@ answer)
  /\ UNCHANGED <<store, listeners, overlap, returned, pure, cookie_jar, held>>

\* ---- the specification of the session

Init == InitStore /\ InitTasks /\ InitPure

Next ==
  \/ StartProxy(Starter)
  \/ SetProxyUrl
  \/ SetProxyAuth
  \/ ClearProxyAuth
  \/ FetchRawHtml(Client)
  \/ FetchArticle(Client)
  \/ ProxyResourceHandler(Client)
  \/ ProxyHandler(Client)
  \/ OptionsRequest(Client)

Spec == Init /\ [][Next]_vars

\* What the upstream answered to the operation task t has returned from, if
\* it got an answer.
Upstream(t) == ret[t].v.upstream.v

GotAnswer(t) ==
  /\ ret[t].some /\ ret[t].v.op # "start_proxy" /\ ret[t].v.upstream.some
  /\ ~ret[t].v.upstream.v.response.failed

Handlers == {"proxy_handler", "proxy_resource_handler"}

\* C3: every outbound request that leaves while credentials are stored for
\* its target's scheme://host carries the Basic credentials stored, whichever
\* entry point sends it.
C3_StoredCredentialsOnEveryRequest ==
  \A t \in Tasks :
    (out[t].some /\ out[t].v.stored.some) =>
      BasicAuth(out[t].v.stored.v) \in out[t].v.headers

\* C4: an operation whose upstream answered 401 reports it as such:
\* fetch_article and fetch_raw_html fail with AUTH_REQUIRED:<origin>, the
\* handlers answer the synthesized auth-required page with status 200.
C4_UnauthorizedIsAuthRequired ==
  \A t \in Tasks :
    (GotAnswer(t) /\ Upstream(t).response.status = Unauthorized) =>
      IF ret[t].v.op \in Handlers
      THEN /\ ret[t].v.kind = "Http" /\ ret[t].v.status = 200
           /\ ret[t].v.body = AuthPage(Upstream(t).domain)
      ELSE /\ ret[t].v.kind = "Err"
           /\ ret[t].v.value = "AUTH_REQUIRED:" \o Upstream(t).domain

\* C5: in every outbound request of the Page Handler or the Resource Handler
\* an Authorization header is there only if credentials were stored for the
\* target's scheme://host when the handler looked them up, and it is the Basic
\* header of those credentials: an inbound Authorization header is not sent on.
C5_InboundAuthorizationNeverForwarded ==
  \A t \in Tasks :
    (out[t].some /\ out[t].v.op \in Handlers) =>
      {h \in out[t].v.headers : h[1] = "authorization"}
        \subseteq (IF out[t].v.domain \in DOMAIN out[t].v.seen
                   THEN {BasicAuth(out[t].v.seen[out[t].v.domain])}
                   ELSE {})

\* The Page Handler has sent on a request that came with an Authorization
\* header: the other inbound header went through, and the one Authorization
\* header is that of the stored credentials.
C5_Witness ==
  \E t \in Tasks :
    /\ out[t].some /\ out[t].v.op = "proxy_handler" /\ pc[t] = "ph_response"
    /\ <<"authorization", "Bearer inbound">> \in loc[t].headers
    /\ <<"accept", "image/*">> \in out[t].v.headers
    /\ {h \in out[t].v.headers : h[1] = "authorization"} = {BasicAuth(<<"u", "p">>)}

\* ------------------------------------------------------------- SpecLogin

\* CookieStore::cookies on the shared jar: the Cookie headers of a request to url.
CookiesFor(url) == {<<"cookie", c[2]>> : c \in {c \in cookie_jar : c[1] = url.host}}

\* CookieStore::set_cookies: the jar after a response of url with these headers.
SetCookies(url, headers) ==
  cookie_jar \cup {<<url.host, h[2]>> : h \in {h \in headers : h[1] = "set-cookie"}}

\* ---- logic_fetch_raw_html

\* Url::parse, the domain and the credential lookup.
LogicFetchRawHtmlBegin(t) ==
  /\ pc[t] = "idle"
  /\ Free("auth_credentials")
  /\ \E url \in FetchUrls :
       \E url_obj \in {ParseUrl(url)} :
         IF ~url_obj.ok
         THEN Finish(t, Err("logic_fetch_raw_html", "relative URL without a base", None))
         ELSE /\ Begin(t, "lfrh_send",
                       [op |-> "logic_fetch_raw_html", target |-> url_obj,
                        auth_credentials |-> Get(auth_credentials, DomainOf(url_obj)),
                        seen |-> auth_credentials])
  /\ UNCHANGED <<store, listeners, overlap, returned, pure, cookie_jar, held>>

\* request_builder.send() on the client built with cookie_provider(cookie_jar).
LogicFetchRawHtmlSend(t) ==
  /\ pc[t] = "lfrh_send"
  /\ Send(t, "lfrh_response",
          Request("logic_fetch_raw_html", loc[t].target, CookiesFor(loc[t].target),
                  loc[t].auth_credentials, loc[t].seen, None))
  /\ UNCHANGED <<store, listeners, overlap, returned, pure, cookie_jar, held>>

\* The response: its cookies go to the jar; the 401 check, then the text.
LogicFetchRawHtmlResponse(t) ==
  /\ pc[t] = "lfrh_response"
  /\ \E r \in Responses :
       IF r.failed
       THEN /\ Finish(t, Err("logic_fetch_raw_html", "error sending request",
                             Answered(loc[t].target, r)))
            /\ UNCHANGED cookie_jar
       ELSE /\ cookie_jar' = SetCookies(loc[t].target, HeadersOf(r))
            /\ IF r.status = Unauthorized
               THEN Finish(t, Err("logic_fetch_raw_html",
                                  "AUTH_REQUIRED:" \o DomainOf(loc[t].target),
                                  Answered(loc[t].target, r)))
               ELSE Finish(t, Ok("logic_fetch_raw_html", Bytes(r.body),
                                 Answered(loc[t].target, r)))
  /\ UNCHANGED <<store, listeners, overlap, returned, pure, held>>

LogicFetchRawHtml(t) ==
  LogicFetchRawHtmlBegin(t) \/ LogicFetchRawHtmlSend(t) \/ LogicFetchRawHtmlResponse(t)

\* ---- logic_perform_form_login

LoginUrls == {"https://example.com/login", "not a url"}
Selectors == {None, Some(""), Some(".msg"), Some("p..x")}
LoginRequests == [login_url : LoginUrls, response_selector : Selectors]

\* The elements of a login response's document: class and text.  None is a
\* body whose text could not be read.
LoginDocuments ==
  { None,
    Some(<<>>),
    Some(<<[class |-> "err", text |-> "Bad password"]>>),
    Some(<<[class |-> "msg", text |-> " Welcome "], [class |-> "msg", text |-> "back\n"]>>),
    Some(<<[class |-> "msg", text |-> " \n"]>>) }

LoginResponses ==
  {NetworkFailure} \cup
  [failed : {FALSE}, status : {200, 302, Unauthorized, 500},
   ctype : {Some("text/html")},
   headers : {{}, {<<"set-cookie", "session=abc">>}},
   body : LoginDocuments]

IdentChars == {"e", "g", "m", "p", "r", "s", "x"}

\* scraper::Selector::parse on a class selector: a dot and an identifier.
ParseSelector(selector) ==
  IF /\ Len(selector) >= 2
     /\ SubSeq(selector, 1, 1) = "."
     /\ \A i \in 2..Len(selector) : SubSeq(selector, i, i) \in IdentChars
  THEN Some(From(selector, 2))
  ELSE None

\* for element in document.select(&css_selector): the texts, one after another.
RECURSIVE SelectText(_, _)
SelectText(elements, class) ==
  IF elements = <<>> THEN ""
  ELSE (IF Head(elements).class = class THEN Head(elements).text ELSE "")
       \o SelectText(Tail(elements), class)

\* status.is_success(), without the redirections.
LoginSuccess_2xx(status) == 200 <= status /\ status <= 299

\* status.is_success() || status.is_redirection()
LoginSuccess(status) ==
  (200 <= status /\ status <= 299) \/ (300 <= status /\ status <= 399)

\* StatusCode's Display: the number and the canonical reason.
StatusText(status) ==
  IntToStr(status) \o
    (CASE status = 200 -> " OK"
       [] status = 302 -> " Found"
       [] status = 401 -> " Unauthorized"
       [] status = 500 -> " Internal Server Error"
       [] OTHER -> "")

\* extracted_text: nothing without a selector, with an empty one, with one that
\* does not parse or when the selected text is empty.
ExtractedText(selector, body) ==
  IF ~selector.some THEN None
  ELSE IF selector.v = "" THEN None
  ELSE Bind(ParseSelector(selector.v), LAMBDA css :
         IF ~css.some THEN None
         ELSE Bind(SelectText(IF body.some THEN body.v ELSE <<>>, css.v), LAMBDA extracted :
                IF extracted = "" THEN None ELSE Some(Trim(extracted))))

\* What perform_form_login returns, with the request it was given.
LoginReturn(kind, value, request, upstream) ==
  [op |-> "perform_form_login", kind |-> kind, value |-> value, request |-> request,
   upstream |-> upstream]

\* Url::parse and the POST, sent through the shared jar with login_url as its
\* Referer.
PerformFormLoginSend(t) ==
  /\ pc[t] = "idle"
  /\ \E request \in LoginRequests :
       \E login_url \in {ParseUrl(request.login_url)} :
         IF ~login_url.ok
         THEN Finish(t, LoginReturn("Err", "relative URL without a base", request, None))
         ELSE /\ pc' = [pc EXCEPT ![t] = "pfl_response"]
              /\ loc' = [loc EXCEPT ![t] = [op |-> "perform_form_login", target |-> login_url,
                                            request |-> request]]
              /\ out' = [out EXCEPT ![t] =
                           Some(Request("perform_form_login", login_url, CookiesFor(login_url),
                                        None, auth_credentials,
                                        Some(UrlToString(login_url))))]
              /\ ret' = [ret EXCEPT ![t] = None]
  /\ UNCHANGED <<store, listeners, overlap, returned, pure, cookie_jar, held>>

\* The response: its cookies go to the jar, and the LoginResponse is built.
PerformFormLoginResponse(t) ==
  /\ pc[t] = "pfl_response"
  /\ \E r \in LoginResponses :
       IF r.failed
       THEN /\ Finish(t, LoginReturn("Err", "error sending request", loc[t].request,
                                     Answered(loc[t].target, r)))
            /\ UNCHANGED cookie_jar
       ELSE /\ cookie_jar' = SetCookies(loc[t].target, HeadersOf(r))
            /\ Finish(t, LoginReturn("Ok",
                           [success        |-> LoginSuccess(r.status),
                            message        |-> "Status: " \o StatusText(r.status),
                            status_code    |-> r.status,
                            extracted_text |-> ExtractedText(loc[t].request.response_selector,
                                                             r.body)],
                           loc[t].request, Answered(loc[t].target, r)))
  /\ UNCHANGED <<store, listeners, overlap, returned, pure, held>>

PerformFormLogin(t) == PerformFormLoginSend(t) \/ PerformFormLoginResponse(t)

\* ---- the specification of the session with the shared logic

NextLogin ==
  \/ StartProxy(Starter)
  \/ SetProxyUrl
  \/ LogicFetchRawHtml(Client)
  \/ PerformFormLogin(Client)
  \/ ProxyResourceHandler(Client)
  \/ ProxyHandler(Client)

SpecLogin == Init /\ [][NextLogin]_vars

\* ------------------------------------------------------------- SpecAuth

\* The domains the host application stores credentials for.
AllAuthDomains == {"https://example.com", "http://other.org"}

\* The credential table and what runs next to it: the commands on two
\* domains, navigation, and one task that runs start_proxy, fetch_raw_html and
\* the form login one at a time.
NextAuth ==
  \/ SetProxyAuthOn(AllAuthDomains)
  \/ ClearProxyAuthOn(AllAuthDomains)
  \/ SetProxyUrl
  \/ StartProxy(Client)
  \/ FetchRawHtml(Client)
  \/ PerformFormLogin(Client)

SpecAuth == Init /\ [][NextAuth]_vars

\* ------------------------------------------------------------ SpecArticle

\* Texts of 100 characters and a little more.
LongTexts == {Repeat("a", n) : n \in 100..(100 + MaxExtra)}

\* Documents with a <p>, <article> or <main> element holding a long text.
RichBodies ==
  UNION {{ "<p>" \o x \o "</p>",
           "<head></head><body></body><p>" \o x \o "</p>",
           "<html><head><title>t</title></head><body><h1>t</h1><main>" \o x
             \o "</main><footer>" \o Repeat("f", 60) \o "</footer></body></html>",
           "<html><head></head><body><article>" \o x \o "</article></body></html>" }
         : x \in LongTexts}

ArticleBodies ==
  RichBodies \cup
  { CanonicalEmpty,
    "\n " \o CanonicalEmpty \o "\n",
    "",
    " \n\t",
    "<html><head></head><body></body></html>",
    "<html><body>hi</body></html>",
    "<div>\fPNG</div>",
    "a\fPNG",
    "<!DOCTYPE html><html><head>" \o Repeat(" ", 100) \o "</head><body>\n</body></html>",
    "<html><body><ul><li>" \o Repeat("b", 150) \o "</li></ul></body></html>" }

ContentTypes ==
  { None, Some("text/html"), Some("text/html; charset=utf-8"),
    Some("application/xhtml+xml"), Some("image/png"), Some("application/json") }

Statuses == {200, 401, 404}

\* What readability's extractor may answer.
Extractions ==
  { [ok |-> FALSE],
    [ok |-> TRUE, content |-> ""],
    [ok |-> TRUE, content |-> " <head></head> "],
    [ok |-> TRUE, content |-> "<div><p>" \o Repeat("a", 100) \o "</p></div>\n"] }

InitArticle ==
  /\ InitStore /\ InitTasks
  /\ rw = [stage |-> "unused"]
  /\ \E c \in ContentTypes, b \in ArticleBodies, st \in Statuses, ex \in Extractions :
       art = [stage |-> "response", status |-> st, ctype |-> c, html |-> b, ex |-> ex]

\* fetch_article on the response received.
FetchArticleClassify ==
  /\ art.stage = "response"
  /\ art' = [stage  |-> "done",
             status |-> art.status,
             ctype  |-> art.ctype,
             html   |-> art.html,
             ex     |-> art.ex,
             result |-> ArticleResult(art.ctype, art.html, art.ex)]
  /\ UNCHANGED <<store, listeners, pc, loc, out, ret, overlap, returned, rw, cookie_jar, held>>

NextArticle == FetchArticleClassify

SpecArticle == InitArticle /\ [][NextArticle]_vars

HtmlTyped(ctype) ==
  ctype.some /\ (Contains(ctype.v, "text/html") \/ Contains(ctype.v, "application/xhtml"))

IsRich(html) ==
  \E tag \in {"p", "article", "main"}, x \in LongTexts :
    Contains(html, "<" \o tag \o ">" \o x \o "</" \o tag \o ">")

Heuristics == {"exact", "pair", "bare", "pattern", "small"}

\* C7: a text/html document with a <p>, <article> or <main> element of at
\* least 100 characters of text is not diverted to the fallback sentinel by a
\* pre-extraction heuristic, and what the extractor found is returned.
C7_RichDocumentReachesExtraction ==
  (art.stage = "done" /\ art.ctype.some /\ Contains(art.ctype.v, "text/html")
     /\ IsRich(art.html)) =>
    /\ art.result.step \notin Heuristics
    /\ (art.ex.ok /\ Len(Trim(art.ex.content)) >= ExtractedMinLen) =>
         (art.result.kind = "Ok" /\ art.result.value = art.ex.content)

\* ------------------------------------------------------------ SpecRewrite

RwTargets ==
  {"https://example.com/blog/post", "https://example.com:8443/blog/post", "http://other.org/",
   "https://example.com/post"}

RwElements ==
  { <<"img", "src">>, <<"script", "src">>, <<"link", "href">>, <<"a", "href">>,
    <<"form", "action">>, <<"img", "srcset">> }

RwValues ==
  { "/img/a.png", "b.html", "/b.html", "//cdn.example.net/x.js", "../up.css",
    "https://example.com/abs.png", "data:image/png;base64,AAAA", "#top",
    "a.png 1x, /b.png 2x", "" }

\* state.port.unwrap_or(3000)
ProxyPorts == Ports \cup {DefaultPort}

InitRewrite ==
  /\ InitStore /\ InitTasks
  /\ art = [stage |-> "unused"]
  /\ \E t \in RwTargets, e \in RwElements, v \in RwValues, p \in ProxyPorts :
       rw = [stage |-> "attr", target |-> t, tag |-> e[1], attr |-> e[2], val |-> v, port |-> p]

\* The attribute as proxy_handler's rewriter leaves it.
PageRewrite ==
  /\ rw.stage = "attr"
  /\ rw' = [stage |-> "page", target |-> rw.target, tag |-> rw.tag, attr |-> rw.attr,
            val |-> rw.val, port |-> rw.port,
            result |-> PageRewriteAttr(ParseUrl(rw.target), rw.port, rw.tag, rw.attr, rw.val)]
  /\ UNCHANGED <<store, listeners, pc, loc, out, ret, overlap, returned, art, cookie_jar, held>>

\* The attribute as proxy_resource_handler's rewriter leaves it.
ResourceRewrite ==
  /\ rw.stage = "attr"
  /\ rw' = [stage |-> "resource", target |-> rw.target, tag |-> rw.tag, attr |-> rw.attr,
            val |-> rw.val, port |-> rw.port,
            result |-> ResourceRewriteAttr(ParseUrl(rw.target), rw.port, rw.tag, rw.attr, rw.val)]
  /\ UNCHANGED <<store, listeners, pc, loc, out, ret, overlap, returned, art, cookie_jar, held>>

\* The base_url under which proxy_handler serves target at the target's path:
\* the root of the target's origin.
BaseOf(target) == [target EXCEPT !.path = "/", !.query = "", !.frag = ""]

\* The URL requested when the link href of the page that the proxy serves at
\* the target's path is followed: href resolved against the page's URL.
LinkRequest(proxy_port, target, href) ==
  Join(ParseUrl("http://localhost:" \o IntToStr(proxy_port) \o target.path), href)

\* What the proxy does with GET u while base_url is base: the handler that
\* fetches, and the upstream URL it fetches.
Dispatch(base, proxy_port, u) ==
  IF ~(/\ u.ok /\ "opaque" \notin DOMAIN u /\ u.scheme = "http" /\ u.host = "localhost"
       /\ u.port = IntToStr(proxy_port))
  THEN [handler |-> "none", fetched |-> ""]
  ELSE IF Route("GET", u.path) = "proxy_resource_handler"
  THEN [handler |-> "resource",
        fetched |-> IF StartsWith(u.query, "?url=") THEN UrlDecode(From(u.query, 6)) ELSE ""]
  ELSE IF Route("GET", u.path) = "proxy_handler"
  THEN Bind(UrlDecode(From(u.path, 2)), LAMBDA path :
         IF IsResource(path)
         THEN [handler |-> "resource", fetched |-> DomainOf(base) \o "/" \o path]
         ELSE [handler |-> "page", fetched |-> UrlToString(Join(base, path))])
  ELSE [handler |-> "none", fetched |-> ""]

\* The rewritten link of a page that proxy_handler served is followed.
FollowLink ==
  /\ rw.stage = "page" /\ rw.tag = "a" /\ rw.attr = "href"
  /\ Route("GET", ParseUrl(rw.target).path) = "proxy_handler"
  /\ \E d \in {Dispatch(BaseOf(ParseUrl(rw.target)), rw.port,
                         LinkRequest(rw.port, ParseUrl(rw.target), rw.result))} :
       rw' = [stage |-> "followed", target |-> rw.target, tag |-> rw.tag, attr |-> rw.attr,
              val |-> rw.val, port |-> rw.port, result |-> rw.result,
              handler |-> d.handler, fetched |-> d.fetched]
  /\ UNCHANGED <<store, listeners, pc, loc, out, ret, overlap, returned, art, cookie_jar, held>>

NextRewrite == PageRewrite \/ ResourceRewrite \/ FollowLink

SpecRewrite == InitRewrite /\ [][NextRewrite]_vars

C8_Case ==
  /\ rw.stage \in {"page", "resource"}
  /\ rw.target = "https://example.com/blog/post"
  /\ rw.attr = "src" /\ rw.val = "/img/a.png"

\* C8 (as claimed): on the page https://example.com/blog/post, src="/img/a.png"
\* becomes exactly /proxy?url=https%3A%2F%2Fexample.com%2Fimg%2Fa.png.
C8_SrcRewrittenToRelativeProxyPath ==
  C8_Case => rw.result = "/proxy?url=https%3A%2F%2Fexample.com%2Fimg%2Fa.png"

\* C8 (amended): it becomes exactly
\* http://localhost:<proxy port>/proxy?url=https%3A%2F%2Fexample.com%2Fimg%2Fa.png
\* (an absolute URL on the proxy, resolved against the domain root).
C8_SrcRewrittenToProxyUrl ==
  C8_Case =>
    rw.result = "http://localhost:" \o IntToStr(rw.port)
                \o "/proxy?url=https%3A%2F%2Fexample.com%2Fimg%2Fa.png"

C8_Witness ==
  /\ C8_Case /\ rw.stage = "page" /\ rw.port \in Ports
  /\ EndsWith(rw.result, "/proxy?url=https%3A%2F%2Fexample.com%2Fimg%2Fa.png")

C9_Case ==
  /\ rw.stage = "page"
  /\ rw.target = "https://example.com/blog/post"
  /\ rw.tag = "a" /\ rw.attr = "href" /\ rw.val = "b.html"

\* C9 (as claimed): on that page the Page Handler rewrites <a href="b.html"> to
\* href="blog/b.html".
C9_RelativeLinkGetsDirectory ==
  C9_Case => rw.result = "blog/b.html"

\* C9 (amended): the Page Handler leaves <a href="b.html"> as it is: the value
\* stays b.html, with no leading slash and not routed through /proxy?url=.
C9_RelativeLinkKept ==
  C9_Case => rw.result = "b.html"

C9_Witness == C9_Case /\ rw.result = rw.val

\* ------------------------------------------------- the handlers' responses

\* C11: every response a handler serves, the auth-required page and the error
\* responses among them, carries Access-Control-Allow-Origin: * and none of
\* Content-Length, Content-Security-Policy, X-Frame-Options, Transfer-Encoding.
C11_CorsOnEveryResponse ==
  \A t \in Tasks :
    (ret[t].some /\ ret[t].v.op \in Handlers) =>
      /\ <<"access-control-allow-origin", "*">> \in ret[t].v.headers
      /\ \A h \in ret[t].v.headers :
           h[1] \notin {"content-length", "content-security-policy", "x-frame-options",
                        "transfer-encoding"}

\* C12: a handler response that reached the upstream has the upstream's status
\* unless that is 401; then it has status 200 and a text/html body that posts
\* a PROXY_AUTH_REQUIRED message carrying the target's scheme://host.
C12_StatusPassedThroughUnlessUnauthorized ==
  \A t \in Tasks :
    (GotAnswer(t) /\ ret[t].v.op \in Handlers) =>
      IF Upstream(t).response.status = Unauthorized
      THEN /\ ret[t].v.status = 200
           /\ \E h \in ret[t].v.headers : h[1] = "content-type" /\ Contains(h[2], "text/html")
           /\ Contains(ret[t].v.body, "window.parent.postMessage(")
           /\ Contains(ret[t].v.body, "type: 'PROXY_AUTH_REQUIRED'")
           /\ Contains(ret[t].v.body, "domain: '" \o Upstream(t).domain \o "'")
      ELSE ret[t].v.status = Upstream(t).response.status

\* The Page Handler has answered a 401 of https://example.com with the page.
C12_Witness ==
  \E t \in Tasks :
    /\ GotAnswer(t) /\ ret[t].v.op = "proxy_handler"
    /\ Upstream(t).response.status = Unauthorized
    /\ Upstream(t).domain = "https://example.com"
    /\ ret[t].v.status = 200
    /\ Contains(ret[t].v.body, "domain: 'https://example.com'")


SaysHtml(ctype) == ctype.some /\ Contains(ctype.v, "text/html")

\* C10 (as claimed): a handler forwards the body of every upstream response
\* whose Content-Type does not contain text/html byte for byte, and runs the
\* rewriting pipeline only when the Content-Type contains text/html.
C10_NonHtmlForwardedUnchanged ==
  \A t \in Tasks :
    (GotAnswer(t) /\ ret[t].v.op \in Handlers) =>
      /\ ~SaysHtml(Upstream(t).response.ctype) =>
           (ret[t].v.body = Bytes(Upstream(t).response.body) /\ ~ret[t].v.rewritten)
      /\ ret[t].v.rewritten => SaysHtml(Upstream(t).response.ctype)

\* C10 (amended): that holds of every upstream response but a 401, whose body
\* is replaced by the auth-required page whatever its Content-Type; the body
\* of any other response whose Content-Type does not contain text/html is
\* forwarded byte for byte with the upstream's status, and the pipeline runs
\* only on responses other than 401 whose Content-Type contains text/html.
C10_NonHtmlForwardedUnlessUnauthorized ==
  \A t \in Tasks :
    (GotAnswer(t) /\ ret[t].v.op \in Handlers) =>
      /\ Upstream(t).response.status = Unauthorized =>
           (ret[t].v.body = AuthPage(Upstream(t).domain) /\ ~ret[t].v.rewritten)
      /\ (Upstream(t).response.status # Unauthorized
            /\ ~SaysHtml(Upstream(t).response.ctype)) =>
           /\ ret[t].v.body = Bytes(Upstream(t).response.body)
           /\ ret[t].v.status = Upstream(t).response.status
           /\ ~ret[t].v.rewritten
      /\ ret[t].v.rewritten =>
           (SaysHtml(Upstream(t).response.ctype)
             /\ Upstream(t).response.status # Unauthorized)

\* The Page Handler has forwarded a 200 image/png response whose body holds
\* markup: the markup is returned as it came.
C10_Witness ==
  \E t \in Tasks :
    /\ GotAnswer(t) /\ ret[t].v.op = "proxy_handler"
    /\ Upstream(t).response.status = 200
    /\ Upstream(t).response.ctype = Some("image/png")
    /\ Upstream(t).response.body = HtmlPage
    /\ ret[t].v.body = Bytes(HtmlPage)

\* ------------------------------------------------------ the shared cookie jar

\* C13: every outbound request, whichever entry point sends it, carries the
\* cookies the shared jar holds for its host when it leaves: a cookie set by an
\* earlier response of that origin is sent by the handlers too.
C13_JarCookiesOnEveryRequest ==
  \A t \in Tasks :
    out[t].some =>
      \A c \in out[t].v.jar : <<"cookie", c[2]>> \in out[t].v.headers

\* ---------------------------------------------------------- perform_form_login

\* The selector selects no text: there is none, it is empty, it does not
\* parse, or no element of the document has its class.
SelectsNothing(selector, body) ==
  \/ ~selector.some
  \/ selector.v = ""
  \/ ~ParseSelector(selector.v).some
  \/ ~body.some
  \/ \A i \in DOMAIN body.v : "." \o body.v[i].class # selector.v

\* C14: perform_form_login returns Ok(LoginResponse) for every response it
\* receives, with success true exactly for a 2xx or 3xx status, status_code the
\* status, and extracted_text None when the selector is absent, empty,
\* unparsable or matches nothing; it returns Err only when login_url does not
\* parse or the request fails.
C14_LoginResponseForEveryStatus ==
  \A t \in Tasks :
    (ret[t].some /\ ret[t].v.op = "perform_form_login") =>
      IF GotAnswer(t)
      THEN /\ ret[t].v.kind = "Ok"
           /\ ret[t].v.value.success <=> (Upstream(t).response.status \div 100 \in {2, 3})
           /\ ret[t].v.value.status_code = Upstream(t).response.status
           /\ SelectsNothing(ret[t].v.request.response_selector, Upstream(t).response.body)
                => ret[t].v.value.extracted_text = None
      ELSE /\ ret[t].v.kind = "Err"
           /\ \/ ~ParseUrl(ret[t].v.request.login_url).ok
              \/ (ret[t].v.upstream.some /\ ret[t].v.upstream.v.response.failed)

\* A login answered 302 with a selector that does not parse: a LoginResponse
\* that reports success, the status and no text.
C14_Witness ==
  \E t \in Tasks :
    /\ GotAnswer(t) /\ ret[t].v.op = "perform_form_login"
    /\ Upstream(t).response.status = 302
    /\ ret[t].v.request.response_selector = Some("p..x")
    /\ ret[t].v.kind = "Ok"
    /\ ret[t].v.value.success
    /\ ret[t].v.value.status_code = 302
    /\ ret[t].v.value.extracted_text = None

\* ------------------------------------------------- a request and base_url

\* C15: in a handler request that began by reading base_url, the target and
\* the Referer of the outbound request both come from that one value, whatever
\* set_proxy_url did while the request was suspended.
C15_OneBaseUrlPerRequest ==
  \A t \in Tasks :
    (out[t].some /\ out[t].v.op \in Handlers /\ loc[t].base_url.some) =>
      /\ out[t].v.domain = DomainOf(loc[t].base_url.v)
      /\ <<"referer", UrlToString(loc[t].base_url.v)>> \in out[t].v.headers

\* ---------------------------------------------------- locks and suspension

\* C16: a task inside start_proxy, fetch_raw_html or a handler, waiting on the
\* network or on any other await, holds no lock of the store, so base_url,
\* port and auth_credentials are free for set_proxy_url, set_proxy_auth and
\* clear_proxy_auth.
C16_NoLockHeldWhileSuspended ==
  (\E t \in Tasks : pc[t] # "idle") =>
    /\ \A t \in Tasks : pc[t] # "idle" => held[t] = {}
    /\ \A lock \in {"base_url", "port", "auth_credentials"} :
         \A t \in Tasks : lock \notin held[t]

\* start_proxy waits for its server while fetch_raw_html waits for the
\* upstream, and no lock is held.
C16_Witness ==
  /\ pc[Starter] = "sp_server"
  /\ pc[Client] = "frh_response" /\ out[Client].some
  /\ \A t \in Tasks : held[t] = {}

\* ------------------------------------- set_proxy_url and the fetch in flight

\* C17: a step that changes base_url while a handler is past the resolution
\* of its target leaves the handler where it is, with its target and its
\* request; and the handler's answer is that of its target: the response
\* comes from the URL of the target, and a rewritten body is the upstream's
\* body rewritten against the target.
C17_InFlightFetchKeepsTarget ==
  [][\A t \in Tasks :
       pc[t] \in HandlerPoints =>
         /\ base_url' # base_url =>
              (pc'[t] = pc[t] /\ out'[t] = out[t] /\ loc'[t].target = loc[t].target)
         /\ out[t].some => out[t].v.url = UrlToString(loc[t].target)
         /\ (pc'[t] = "idle" /\ ret'[t].v.upstream.some) =>
              /\ ret'[t].v.upstream.v.url = UrlToString(loc[t].target)
              /\ (ret'[t].v.kind = "Http" /\ ret'[t].v.rewritten) =>
                   ret'[t].v.body =
                     Bytes(RewriteDocument(IF pc[t] = "ph_response" THEN "page" ELSE "resource",
                                           loc[t].target,
                                           IF pc[t] = "ph_response" THEN loc[t].proxy_port
                                           ELSE IF port.some THEN port.v ELSE DefaultPort,
                                           ret'[t].v.upstream.v.response.body))]_vars

\* The Page Handler's fetch of a page of http://localhost is in flight, sent
\* when base_url was the value read at the start, and base_url has changed.
C17_Witness ==
  \E t \in Tasks :
    /\ pc[t] = "ph_response" /\ out[t].some
    /\ loc[t].base_url.some /\ loc[t].base_url.v # base_url
    /\ out[t].v.url = UrlToString(loc[t].target)
    /\ out[t].v.domain = DomainOf(loc[t].base_url.v)
    /\ <<"referer", UrlToString(loc[t].base_url.v)>> \in out[t].v.headers

\* ------------------------------------------------- one fetch for a request

PassesChecks ==
  /\ HtmlTyped(art.ctype)
  /\ Trim(art.html) # ""
  /\ ~IsBinary(art.html)

\* C19: for a response that passes the content-type, empty-body and binary
\* checks fetch_article returns Ok: the sentinel, or what the extractor found,
\* then not blank; a failed or blank extraction gives the sentinel.
C19_NoErrorAfterChecks ==
  (art.stage = "done" /\ PassesChecks) =>
    /\ art.result.kind = "Ok"
    /\ \/ art.result.value = FALLBACK_SIGNAL
       \/ (art.ex.ok /\ art.result.value = art.ex.content /\ Trim(art.result.value) # "")
    /\ (~art.ex.ok \/ Trim(art.ex.content) = "") => art.result.value = FALLBACK_SIGNAL

\* The extractor failed on a rich document that passed every check and
\* heuristic: the sentinel is returned.
C19_Witness ==
  /\ art.stage = "done" /\ PassesChecks /\ IsRich(art.html)
  /\ ~art.ex.ok
  /\ art.result.step = "extract_failed"
  /\ art.result.kind = "Ok" /\ art.result.value = FALLBACK_SIGNAL

\* C20: fetch_article rejects a response for its content type exactly when
\* the Content-Type header is there and contains neither text/html nor
\* application/xhtml; without the header the response goes on to the body
\* checks.
C20_RejectedOnlyWhenHeaderPresent ==
  art.stage = "done" =>
    ((art.result.kind = "Err" /\ art.result.step = "content_type")
       <=> (/\ art.ctype.some
            /\ ~Contains(art.ctype.v, "text/html")
            /\ ~Contains(art.ctype.v, "application/xhtml")))

\* --------------------------------------------- the order of the body checks

\* The minimal-document condition: the canonical empty document, or fewer
\* than 150 characters with the <head></head>/<body></body> pair and no
\* content tag.
MinimalCondition(trimmed) ==
  \/ trimmed = CanonicalEmpty
  \/ /\ Len(trimmed) < MinimalLen
     /\ Contains(trimmed, "<head></head>") /\ Contains(trimmed, "<body></body>")
     /\ \A tag \in {"<p", "<div", "<article", "<main", "<section", "<h1", "<h2", "<span"} :
          ~Contains(trimmed, tag)

\* C21: an HTML-typed body that is not blank, has a control character other
\* than \n, \r, \t among its first 100 characters and does not meet the
\* minimal-document condition is rejected with the binary-content error, and
\* the sentinel is not returned.
C21_BinaryRejectedBeforeLaterHeuristics ==
  (/\ art.stage = "done" /\ HtmlTyped(art.ctype) /\ Trim(art.html) # ""
   /\ IsBinary(art.html) /\ ~MinimalCondition(Trim(art.html))) =>
    /\ art.result.kind = "Err"
    /\ art.result.value = "Content appears to be binary or corrupted."

\* ------------------------------------------ the Page Handler's delegation

\* The path ends with a static extension or starts with a static prefix.
StaticPath(path) ==
  \/ \E e \in {".css", ".js", ".png", ".jpg", ".jpeg", ".gif", ".svg", ".ico", ".woff",
               ".woff2", ".ttf", ".eot"} :
       Len(path) >= Len(e) /\ SubSeq(path, Len(path) - Len(e) + 1, Len(path)) = e
  \/ \E d \in {"assets/", "images/", "fonts/"} :
       Len(path) >= Len(d) /\ SubSeq(path, 1, Len(d)) = d

\* C22: a request the Page Handler took is with the Resource Handler exactly
\* when its path is static; then its target is the URL <scheme>://<host>/<path>
\* of the base_url read, as written; otherwise its target is base_url joined
\* with the path.  The request that leaves goes to the target.
C22_DelegationAndTargets ==
  \A t \in Tasks :
    (pc[t] \in HandlerPoints /\ loc[t].path.some) =>
      /\ IF StaticPath(loc[t].path.v)
         THEN /\ pc[t] \in {"rh_creds", "rh_send", "rh_response"}
              /\ UrlToString(loc[t].target)
                   = loc[t].base_url.v.scheme \o "://" \o loc[t].base_url.v.host
                     \o "/" \o loc[t].path.v
         ELSE /\ pc[t] \in {"ph_port", "ph_creds", "ph_send", "ph_response"}
              /\ loc[t].target = Join(loc[t].base_url.v, loc[t].path.v)
      /\ out[t].some => out[t].v.url = UrlToString(loc[t].target)

\* ------------------------------------------------- one pipeline, two handlers

\* C23: for the same attribute, target and proxy port the two handlers write
\* the same value: what one handler wrote is what the other one's rule gives.
C23_SameRewriteInBothHandlers ==
  /\ rw.stage = "page" =>
       rw.result = ResourceRewriteAttr(ParseUrl(rw.target), rw.port, rw.tag, rw.attr, rw.val)
  /\ rw.stage = "resource" =>
       rw.result = PageRewriteAttr(ParseUrl(rw.target), rw.port, rw.tag, rw.attr, rw.val)

\* ------------------------------------------------------------------ srcset

\* The candidates of a srcset value, each a URL and, after white space, a
\* descriptor.
Candidates(v) == [i \in DOMAIN SplitComma(v) |-> SplitWhitespace(SplitComma(v)[i])]

\* A candidate with its URL rewritten as the handler rewrites a src value and
\* its descriptor as it was.
CandidateAsSrc(handler, target, proxy_port, parts) ==
  RewriteAttr(handler, target, proxy_port, "img", "src", parts[1])
    \o (IF Len(parts) > 1 THEN " " \o parts[2] ELSE "")

RECURSIVE JoinCandidates(_)
JoinCandidates(cs) ==
  IF cs = <<>> THEN ""
  ELSE IF Len(cs) = 1 THEN cs[1]
  ELSE cs[1] \o ", " \o JoinCandidates(Tail(cs))

\* C24: a srcset value whose candidates all have a URL is rewritten candidate
\* by candidate, in order: the URL as a src value would be, the descriptor
\* kept, the candidates joined with ", ".
C24_SrcsetCandidatesRewrittenAsSrc ==
  (/\ rw.stage \in {"page", "resource"} /\ rw.attr = "srcset"
   /\ \A i \in DOMAIN Candidates(rw.val) : Len(Candidates(rw.val)[i]) \in {1, 2}) =>
    rw.result =
      JoinCandidates([i \in DOMAIN Candidates(rw.val) |->
                        CandidateAsSrc(rw.stage, ParseUrl(rw.target), rw.port,
                                       Candidates(rw.val)[i])])

\* ------------------------------------------------------------- idempotence

\* C25: the value a handler wrote is left as it is when the same rule is
\* applied to it again, and a value that starts with data:, blob: or the
\* proxy's http://localhost: origin is written back unchanged.
C25_RewriteIdempotent ==
  rw.stage \in {"page", "resource"} =>
    /\ RewriteAttr(rw.stage, ParseUrl(rw.target), rw.port, rw.tag, rw.attr, rw.result)
         = rw.result
    /\ (\E p \in {"data:", "blob:", "http://localhost:"} :
          Len(rw.val) >= Len(p) /\ SubSeq(rw.val, 1, Len(p)) = p) => rw.result = rw.val

\* ---------------------------------------------------------- CORS preflight

\* C26: an OPTIONS request on any path is answered 204 with an empty body,
\* Access-Control-Allow-Origin: * and the allow-methods and allow-headers
\* headers, and no request leaves for an upstream.
C26_OptionsAnswered204 ==
  \A t \in Tasks :
    (ret[t].some /\ ret[t].v.op = "options") =>
      /\ ret[t].v.status = 204
      /\ ret[t].v.kind = "Http" /\ ret[t].v.body = ""
      /\ <<"access-control-allow-origin", "*">> \in ret[t].v.headers
      /\ \E h \in ret[t].v.headers : h[1] = "access-control-allow-methods"
      /\ \E h \in ret[t].v.headers : h[1] = "access-control-allow-headers"
      /\ ~out[t].some /\ ~ret[t].v.upstream.some

\* ------------------------------------------------------- the credential table

\* C27: a step that changes auth_credentials is a step of set_proxy_auth or
\* clear_proxy_auth, not of an operation (no task moves, nothing else of the
\* store changes), and it changes the entry of one domain only: every other
\* entry is there before and after, with the same credentials.
C27_CredentialsChangeOnlyByCommands ==
  [][auth_credentials' # auth_credentials =>
       /\ UNCHANGED <<base_url, port, listeners, pc, loc, out, ret, cookie_jar>>
       /\ \E d \in DOMAIN auth_credentials \cup DOMAIN auth_credentials' :
            /\ \A e \in (DOMAIN auth_credentials \cup DOMAIN auth_credentials') \ {d} :
                 /\ e \in DOMAIN auth_credentials /\ e \in DOMAIN auth_credentials'
                 /\ auth_credentials'[e] = auth_credentials[e]
            /\ d \in DOMAIN auth_credentials' => auth_credentials'[d] \in Credentials]_vars

\* Credentials are stored for two domains, and fetch_raw_html has come back
\* from a 401 of one of them: both entries are still there.
C27_Witness ==
  \E t \in Tasks :
    /\ ret[t].some /\ ret[t].v.op = "fetch_raw_html" /\ GotAnswer(t)
    /\ Upstream(t).response.status = Unauthorized
    /\ Upstream(t).domain = "http://other.org"
    /\ DOMAIN auth_credentials = {"https://example.com", "http://other.org"}
    /\ auth_credentials["http://other.org"] = <<"u2", "p2">>

\* ------------------------------------------ the port in the rewritten URLs

\* C28: a handler that answers with a rewritten document has written it with
\* the port of the listener: the body is the upstream's body rewritten with
\* the port start_proxy_server's listener is bound to.
C28_RewrittenUrlsNameListeningPort ==
  [][\A t \in Tasks :
       (/\ pc[t] \in {"ph_response", "rh_response"} /\ pc'[t] = "idle"
        /\ ret'[t].v.kind = "Http" /\ ret'[t].v.rewritten) =>
         ret'[t].v.body =
           Bytes(RewriteDocument(IF pc[t] = "ph_response" THEN "page" ELSE "resource",
                                 loc[t].target, listeners[1],
                                 ret'[t].v.upstream.v.response.body))]_vars

\* -------------------------------------------------- domain-root resolution

\* A value that names a path from the root of the domain.
DomainRoot(v) == StartsWith(v, "/") /\ ~StartsWith(v, "//")

\* C29: a domain-root src or link href rewritten by the Page Handler is routed
\* to the URL that joining the value against the target gives: scheme, host
\* and port of the target, and the value as the path.
C29_DomainRootKeepsOrigin ==
  (/\ rw.stage = "page"
   /\ rw.attr = "src" \/ (rw.attr = "href" /\ rw.tag = "link")
   /\ DomainRoot(rw.val)) =>
    rw.result = "http://localhost:" \o IntToStr(rw.port) \o "/proxy?url="
                \o UrlEncode(UrlToString(Join(ParseUrl(rw.target), rw.val)))

\* ------------------------------------------------- following a rewritten link

\* C30: following the rewritten a[href] of a page the Page Handler served,
\* where the original value is domain-root, relative or protocol-relative,
\* comes back to the Page Handler, which fetches the URL that the original
\* value resolves to against the page's target.
C30_FollowedLinkReachesPage ==
  (/\ rw.stage = "followed"
   /\ rw.val # "" /\ Find(rw.val, " ") = 0
   /\ ~AnyPrefix(rw.val, HrefSkip)) =>
    /\ rw.handler = "page"
    /\ rw.fetched = UrlToString(Join(ParseUrl(rw.target), rw.val))

====
